---- MODULE Spec2Model ----
(***************************************************************************)
(* FastSD GIMP plug-in (fastsd-gimp-plugin.py).                            *)
(*                                                                         *)
(* The state is the plug-in object's attributes (fast_sd_requests, info,   *)
(* settings, models, file_path), the locals of run() that the dialog's     *)
(* callback closes over, the dialog's widgets, the position of run() and   *)
(* of every generate_image call, the HTTP exchanges made so far, the       *)
(* connections still open, the temporary files on disk and the layers of   *)
(* the image.  The server, the file system and the user are the            *)
(* environment: their answers and choices are drawn with \E.               *)
(***************************************************************************)
EXTENDS Integers, Sequences, FiniteSets, TLC

VARIABLES
    pc,               \* position of run(): start, probed, ready, dialog, returned, crashed, harness
    run_mode,         \* run()'s run_mode argument
    ret,              \* what run() returned
    fast_sd_requests, \* self.fast_sd_requests
    info,             \* self.info
    settings,         \* self.settings
    models,           \* self.models
    file_path,        \* self.file_path
    model_id,         \* run() local
    inference_steps,  \* run() local
    img_height,       \* run() local
    img_width,        \* run() local
    model_combo,      \* Gtk.ComboBoxText: [items, active]
    inference_scale,  \* Gtk.Scale value
    width_combo,      \* Gtk.ComboBoxText: [items, active]
    height_combo,     \* Gtk.ComboBoxText: [items, active]
    model_changed,    \* history: the user has operated the model selector
    gen,              \* per calling thread: the generate_image call in progress
    http_log,         \* the HTTP operations so far, in order
    served,           \* history: the server's answers to the three GET paths
    open_conns,       \* connections opened by the client and not yet closed
    nfiles,           \* temporary files created so far (they are never deleted)
    nreturned,        \* history: generate_image calls that returned a path
    layers,           \* layers inserted into the image (by file path)
    dialog_shown      \* history: dialog.show_all() has been called

vars == <<pc, run_mode, ret, fast_sd_requests, info, settings, models, file_path,
          model_id, inference_steps, img_height, img_width, model_combo,
          inference_scale, width_combo, height_combo, model_changed, gen,
          http_log, served, open_conns, nfiles, nreturned, layers, dialog_shown>>

(***************************************************************************)
(* Bounds of the model.                                                    *)
(***************************************************************************)
MaxGenerate == 2
MaxThreadCalls == 1

(***************************************************************************)
(* Values.                                                                 *)
(***************************************************************************)
FASTSD_SERVER_URL == "http://localhost:8000"

\* Python's None where a text is expected
None == "None"

\* self.file_path = None
NoPath == 0

\* the empty dict {}
EmptyDict == [k \in {} |-> 0]

\* dict.get(k, default)
Get(d, k, default) == IF k \in DOMAIN d THEN d[k] ELSE default

GtkThread == "gtk"
Callers == {"t1", "t2"}
CallerThread(t) == [kind |-> "caller", id |-> t]
WorkerThread(t) == [kind |-> "worker", id |-> t]

\* an exception is the chain from the one raised down to its original cause
Exc(type, msg) == [type |-> type, msg |-> msg]
Ok(v) == [ok |-> TRUE, val |-> v, exc |-> <<>>]
Raise(chain) == [ok |-> FALSE, val |-> EmptyDict, exc |-> chain]

\* `except <type> as exception: raise <wtype>(<msg>) from exception`
Wrap(wtype, msg, r) == IF r.ok THEN r ELSE Raise(<<Exc(wtype, msg)>> \o r.exc)

\* `except <type>`: the clause catches the exception r raises (every exception
\* here is an Exception; only one raised as RuntimeError is a RuntimeError)
Catches(type, r) ==
    /\ ~r.ok
    /\ \/ type = "Exception"
       \/ r.exc[1].type = type

(***************************************************************************)
(* The environment: what the server may answer.                            *)
(***************************************************************************)
ConnFail == [kind |-> "conn_fail", body |-> EmptyDict]
BadJson == [kind |-> "bad_json", body |-> EmptyDict]
Json(b) == [kind |-> "json", body |-> b]

ServerDims == {256, 640}
ServerModelIds == {"m2", "mX"}
ServerSteps == {4}
Catalogs == {<<>>, <<"m1", "m2">>}
Prompts == {"a red fox"}

DiffusionSettings ==
    {EmptyDict} \cup
    [openvino_lcm_model_id : ServerModelIds, inference_steps : ServerSteps,
     image_height : ServerDims, image_width : ServerDims]

ServerConfigs == {EmptyDict} \cup {[lcm_diffusion_setting |-> d] : d \in DiffusionSettings}

InfoResponses ==
    {ConnFail, BadJson, Json([device_type |-> "cpu", device_name |-> "x86"])}
ConfigResponses == {ConnFail, BadJson} \cup {Json(c) : c \in ServerConfigs}
ModelsResponses ==
    {ConnFail, BadJson, Json(EmptyDict)} \cup {Json([openvino_models |-> m]) : m \in Catalogs}

\* base64 payloads: "UE5H" is the encoding of the bytes "PNG"; "UE5" is wrongly padded
B64Table == [s \in {"UE5H"} |-> "PNG"]
GenerateResponses ==
    {ConnFail, BadJson, Json(EmptyDict), Json([images |-> <<>>]),
     Json([images |-> <<"UE5">>]), Json([images |-> <<"UE5H">>])}

(***************************************************************************)
(* FastSDRequests.                                                         *)
(***************************************************************************)
RootCause(resp) ==
    IF resp.kind = "conn_fail"
    THEN Exc("ConnectionRefusedError", "Connection refused")
    ELSE Exc("JSONDecodeError", "Expecting value")

\* the connection is made by conn.request(); nothing is sent when it fails
RequestsSent(resp) == IF resp.kind = "conn_fail" THEN 0 ELSE 1

\* Neither get_request nor generate_text_to_image calls conn.close(): the
\* socket is closed by getresponse() when the server asked for it
\* (keep_alive = FALSE), and otherwise stays open until the connection
\* object is finalized.
LeftOpen(resp, keep_alive) == IF resp.kind # "conn_fail" /\ keep_alive THEN 1 ELSE 0

get_request(resp) ==
    IF resp.kind = "json"
    THEN Ok(resp.body)
    ELSE Raise(<<Exc("Exception", "Error: "), RootCause(resp)>>)

\* faulty variant: the transport's exception is not wrapped in RuntimeError
load_settings_unwrapped(resp) == get_request(resp)

load_settings(resp) ==
    Wrap("RuntimeError", "Failed to get settings!", get_request(resp))

\* faulty variant: the transport's exception is not wrapped in RuntimeError
get_info_unwrapped(resp) == get_request(resp)

get_info(resp) ==
    Wrap("RuntimeError", "Failed to get info from FastSD", get_request(resp))

get_models(resp) ==
    LET result == get_request(resp) IN
    IF ~result.ok
    THEN Wrap("RuntimeError", "Failed to get models from API", result)
    ELSE IF "openvino_models" \in DOMAIN result.val
         THEN Ok(result.val["openvino_models"])
         ELSE Raise(<<Exc("RuntimeError", "Failed to get models from API"),
                      Exc("KeyError", "openvino_models")>>)

\* no try/except here: the transport's exception reaches the caller as it is
generate_text_to_image(resp) ==
    IF resp.kind = "json" THEN Ok(resp.body) ELSE Raise(<<RootCause(resp)>>)

(***************************************************************************)
(* Widgets and texts.                                                      *)
(***************************************************************************)
Digit(d) == <<"0", "1", "2", "3", "4", "5", "6", "7", "8", "9">>[d + 1]

\* str(n) of a natural number: its decimal digits
RECURSIVE Str(_)
Str(n) == IF n < 10 THEN <<Digit(n)>> ELSE Str(n \div 10) \o <<Digit(n % 10)>>

DigitValue(c) == CHOOSE d \in 0..9 : Digit(d) = c

\* the number a text of decimal digits denotes
RECURSIVE ParseInt(_)
ParseInt(s) ==
    IF Len(s) = 1 THEN DigitValue(s[1])
    ELSE 10 * ParseInt(SubSeq(s, 1, Len(s) - 1)) + DigitValue(s[Len(s)])

\* the texts appended to width_combo and to height_combo
SizeOptions == <<Str(256), Str(512), Str(768), Str(1024)>>

\* Gtk.ComboBox.set_active: an index with no row leaves no active item
set_active(combo, index) ==
    [combo EXCEPT !.active = IF index >= 0 /\ index < Len(combo.items) THEN index ELSE -1]

\* Gtk.ComboBoxText.get_active_text
get_active_text(combo) ==
    IF combo.active = -1 THEN None ELSE combo.items[combo.active + 1]

find_index_by_text(combo, target_text) ==
    IF \E i \in 1..Len(combo.items) : combo.items[i] = target_text
    THEN (CHOOSE i \in 1..Len(combo.items) :
              /\ combo.items[i] = target_text
              /\ \A j \in 1..(i - 1) : combo.items[j] # target_text) - 1
    ELSE -1

\* list.index
ListIndex(list, x) ==
    (CHOOSE i \in 1..Len(list) : list[i] = x /\ \A j \in 1..(i - 1) : list[j] # x) - 1

InList(x, list) == \E i \in 1..Len(list) : list[i] = x

NewCombo(items) == [items |-> items, active |-> -1]

ScaleMin == 1
ScaleMax == 20

\* Gtk.Scale.set_value clamps to the range of the scale
scale_set_value(v) == IF v < ScaleMin THEN ScaleMin ELSE IF v > ScaleMax THEN ScaleMax ELSE v

(***************************************************************************)
(* FastSDPlugin.                                                           *)
(***************************************************************************)
LogEntry(path, thread, resp) ==
    [path |-> path, thread |-> thread, sent |-> RequestsSent(resp)]

NoAnswer == [kind |-> "none", body |-> EmptyDict]

NoReturn == [status |-> "none", url |-> "", detail |-> ""]
Success == [status |-> "SUCCESS", url |-> "", detail |-> ""]

\* the message is f"Ensure that FastSD server is running at {FASTSD_SERVER_URL}.\n{str(exp)}"
ExecutionError(exp) ==
    [status |-> "EXECUTION_ERROR", url |-> FASTSD_SERVER_URL, detail |-> exp[1].msg]

Idle == [pc |-> "idle", config |-> EmptyDict, future |-> Raise(<<>>),
         result |-> Raise(<<>>), calls |-> 0]

\* run(), lines 151-164: the client, the reset of file_path, the liveness probe
RunProbe ==
    /\ pc = "start"
    /\ \E resp \in InfoResponses, keep_alive \in BOOLEAN :
          LET r == get_info(resp) IN
          /\ fast_sd_requests' = [server_url |-> FASTSD_SERVER_URL]
          /\ file_path' = NoPath
          /\ http_log' = Append(http_log, LogEntry("/api/info", CallerThread(GtkThread), resp))
          /\ served' = [served EXCEPT !.info = resp]
          /\ open_conns' = open_conns + LeftOpen(resp, keep_alive)
          /\ IF r.ok
             THEN /\ info' = r.val
                  /\ pc' = "probed"
                  /\ ret' = ret
             ELSE IF Catches("RuntimeError", r)
             THEN /\ info' = info
                  /\ pc' = "returned"
                  /\ ret' = ExecutionError(r.exc)
             ELSE /\ info' = info
                  /\ pc' = "crashed"
                  /\ ret' = ret
    /\ UNCHANGED <<run_mode, settings, models, model_id, inference_steps, img_height,
                   img_width, model_combo, inference_scale, width_combo, height_combo,
                   model_changed, gen, nfiles, nreturned, layers, dialog_shown>>

\* what init_ui_settings does with the two answers: the attributes it sets, the
\* paths it fetched, and whether an exception left it
init_ui_settings(rc, rm) ==
    LET s == load_settings(rc)
        m == get_models(rm)
    IN  IF ~s.ok /\ ~Catches("RuntimeError", s)
        THEN [raised |-> TRUE, settings |-> settings, models |-> models,
              fetched |-> <<rc>>]
        ELSE IF ~m.ok /\ ~Catches("RuntimeError", m)
        THEN [raised |-> TRUE, settings |-> IF s.ok THEN s.val ELSE EmptyDict,
              models |-> models, fetched |-> <<rc, rm>>]
        ELSE [raised |-> FALSE, settings |-> IF s.ok THEN s.val ELSE EmptyDict,
              models |-> IF m.ok THEN m.val ELSE <<>>, fetched |-> <<rc, rm>>]

InitPaths == <<"/api/config", "/api/models">>

\* run(), lines 166-171: init_ui_settings and the defaults read from the settings
RunInit ==
    /\ pc = "probed"
    /\ \E rc \in ConfigResponses, rm \in ModelsResponses, ka \in [1..2 -> BOOLEAN] :
          LET r == init_ui_settings(rc, rm)
              n == Len(r.fetched)
              diffusion_setting == Get(r.settings, "lcm_diffusion_setting", EmptyDict)
          IN  /\ settings' = r.settings
              /\ models' = r.models
              /\ http_log' = http_log \o
                     [i \in 1..n |->
                         LogEntry(InitPaths[i], CallerThread(GtkThread), r.fetched[i])]
              /\ served' = [served EXCEPT !.config = rc,
                                           !.models = IF n = 2 THEN rm ELSE @]
              /\ open_conns' = open_conns + LeftOpen(rc, ka[1])
                                  + (IF n = 2 THEN LeftOpen(rm, ka[2]) ELSE 0)
              /\ IF r.raised
                 THEN /\ pc' = "crashed"
                      /\ UNCHANGED <<model_id, inference_steps, img_height, img_width>>
                 ELSE /\ pc' = "ready"
                      /\ model_id' = Get(diffusion_setting, "openvino_lcm_model_id", "")
                      /\ inference_steps' = Get(diffusion_setting, "inference_steps", 1)
                      /\ img_height' = Get(diffusion_setting, "image_height", 512)
                      /\ img_width' = Get(diffusion_setting, "image_width", 512)
    /\ UNCHANGED <<run_mode, ret, fast_sd_requests, info, file_path, model_combo,
                   inference_scale, width_combo, height_combo, model_changed, gen,
                   nfiles, nreturned, layers, dialog_shown>>

\* faulty variant: the first row is made active whatever the default is
init_model_combo_first(catalog, default_id) == set_active(NewCombo(catalog), 0)

\* lines 223-232
init_model_combo(catalog, default_id) ==
    IF InList(default_id, catalog)
    THEN set_active(NewCombo(catalog), ListIndex(catalog, default_id))
    ELSE set_active(NewCombo(catalog), 0)

\* lines 262-267 and 277-284
init_size_combo(size) ==
    set_active(NewCombo(SizeOptions), find_index_by_text(NewCombo(SizeOptions), Str(size)))

\* run(), lines 173-344: the dialog is built and shown
RunDialog ==
    /\ pc = "ready"
    /\ run_mode = "INTERACTIVE"
    /\ model_combo' = init_model_combo(models, model_id)
    /\ inference_scale' = scale_set_value(inference_steps)
    /\ width_combo' = init_size_combo(img_width)
    /\ height_combo' = init_size_combo(img_height)
    /\ dialog_shown' = TRUE
    /\ pc' = "dialog"
    /\ UNCHANGED <<run_mode, ret, fast_sd_requests, info, settings, models, file_path,
                   model_id, inference_steps, img_height, img_width, model_changed, gen,
                   http_log, served, open_conns, nfiles, nreturned, layers>>

\* run(), lines 173 and 349: no dialog in the other run modes
RunNonInteractive ==
    /\ pc = "ready"
    /\ run_mode # "INTERACTIVE"
    /\ pc' = "returned"
    /\ ret' = Success
    /\ UNCHANGED <<run_mode, fast_sd_requests, info, settings, models, file_path,
                   model_id, inference_steps, img_height, img_width, model_combo,
                   inference_scale, width_combo, height_combo, model_changed, gen,
                   http_log, served, open_conns, nfiles, nreturned, layers, dialog_shown>>

\* the GTK main loop dispatches an event only when no callback is running
DialogIdle == pc = "dialog" /\ gen[GtkThread].pc = "idle"

\* rows the user picks: "768"
UserSizePicks == {2}

\* the user picks a row of the model selector
SelectModel ==
    /\ DialogIdle
    /\ \E i \in 0..(Len(model_combo.items) - 1) :
          /\ i # model_combo.active
          /\ model_combo' = set_active(model_combo, i)
    /\ model_changed' = TRUE
    /\ UNCHANGED <<pc, run_mode, ret, fast_sd_requests, info, settings, models, file_path,
                   model_id, inference_steps, img_height, img_width, inference_scale,
                   width_combo, height_combo, gen, http_log, served, open_conns, nfiles,
                   nreturned, layers, dialog_shown>>

\* the user picks a row of the width selector
SelectWidth ==
    /\ DialogIdle
    /\ \E i \in UserSizePicks :
          /\ i # width_combo.active
          /\ width_combo' = set_active(width_combo, i)
    /\ UNCHANGED <<pc, run_mode, ret, fast_sd_requests, info, settings, models, file_path,
                   model_id, inference_steps, img_height, img_width, model_combo,
                   inference_scale, height_combo, model_changed, gen, http_log, served,
                   open_conns, nfiles, nreturned, layers, dialog_shown>>

\* the user picks a row of the height selector
SelectHeight ==
    /\ DialogIdle
    /\ \E i \in UserSizePicks :
          /\ i # height_combo.active
          /\ height_combo' = set_active(height_combo, i)
    /\ UNCHANGED <<pc, run_mode, ret, fast_sd_requests, info, settings, models, file_path,
                   model_id, inference_steps, img_height, img_width, model_combo,
                   inference_scale, width_combo, model_changed, gen, http_log, served,
                   open_conns, nfiles, nreturned, layers, dialog_shown>>

\* run(), lines 346-349: the dialog is closed and destroyed with its widgets
CloseDialog ==
    /\ DialogIdle
    /\ pc' = "returned"
    /\ ret' = Success
    /\ model_combo' = NewCombo(<<>>)
    /\ inference_scale' = ScaleMin
    /\ width_combo' = NewCombo(SizeOptions)
    /\ height_combo' = NewCombo(SizeOptions)
    /\ model_changed' = FALSE
    /\ UNCHANGED <<run_mode, fast_sd_requests, info, settings, models, file_path,
                   model_id, inference_steps, img_height, img_width, gen,
                   http_log, served, open_conns, nfiles, nreturned, layers, dialog_shown>>

(***************************************************************************)
(* generate_image and the Generate button.                                 *)
(***************************************************************************)
\* on_generate_clicked, lines 292-310: the request body (the JSON object that
\* json.dumps serialises)
BuildConfig(user_input) ==
    [prompt |-> user_input,
     inference_steps |-> inference_scale,
     use_openvino |-> TRUE,
     use_tiny_auto_encoder |-> FALSE,
     openvino_lcm_model_id |-> get_active_text(model_combo),
     image_width |-> img_width,
     image_height |-> img_height]

\* lines 91-95: executor.submit runs generate_text_to_image on the worker of
\* the executor that this call has just created
SubmitThread(t) == WorkerThread(t)

\* faulty variant: the caller goes on without waiting for the future
FutureDone_nowait(g) == g.pc # "idle"

\* line 96: future.result() returns (or raises) once the worker is done
FutureDone(g) == g.pc = "done"

\* generate_image enters: a new ThreadPoolExecutor(max_workers=1), one submit
Submit(t, config) ==
    gen' = [gen EXCEPT ![t] = [pc |-> "submitted", config |-> config,
                               future |-> Raise(<<>>), result |-> @.result,
                               calls |-> @.calls + 1]]

\* the executor's worker picks the task and starts the POST exchange
WorkerStart ==
    /\ \E t \in DOMAIN gen :
          /\ gen[t].pc = "submitted"
          /\ gen' = [gen EXCEPT ![t].pc = "posting"]
    /\ UNCHANGED <<pc, run_mode, ret, fast_sd_requests, info, settings, models, file_path,
                   model_id, inference_steps, img_height, img_width, model_combo,
                   inference_scale, width_combo, height_combo, model_changed, http_log, served,
                   open_conns, nfiles, nreturned, layers, dialog_shown>>

\* the POST exchange ends with the server's answer or a transport failure
WorkerFinish ==
    /\ \E t \in DOMAIN gen, resp \in GenerateResponses, keep_alive \in BOOLEAN :
          /\ gen[t].pc = "posting"
          /\ gen' = [gen EXCEPT ![t].pc = "done",
                                ![t].future = generate_text_to_image(resp)]
          /\ http_log' = Append(http_log, LogEntry("/api/generate", SubmitThread(t), resp))
          /\ served' = served
          /\ open_conns' = open_conns + LeftOpen(resp, keep_alive)
    /\ UNCHANGED <<pc, run_mode, ret, fast_sd_requests, info, settings, models, file_path,
                   model_id, inference_steps, img_height, img_width, model_combo,
                   inference_scale, width_combo, height_combo, model_changed, nfiles,
                   nreturned, layers, dialog_shown>>

GenerationFailed(cause) ==
    Raise(<<Exc("RuntimeError", "Failed to generate image ")>> \o cause)

FsOutcomes == {"ok", "create_fail", "write_fail"}

\* faulty variant: once the file exists its path is returned, whatever the
\* decoding and the write did
generate_image_path_anyway(future, fs, name) ==
    IF ~future.ok
    THEN [result |-> GenerationFailed(future.exc), created |-> 0]
    ELSE IF fs = "create_fail"
    THEN [result |-> GenerationFailed(<<Exc("OSError", "tempfile")>>), created |-> 0]
    ELSE [result |-> Ok(name), created |-> 1]

\* generate_image, lines 96-106, once future.result() is available: what the
\* call gives its caller and how many temporary files it created.  `name` is
\* the unique name NamedTemporaryFile picks.
generate_image(future, fs, name) ==
    IF ~future.ok
    THEN [result |-> GenerationFailed(future.exc), created |-> 0]
    ELSE IF fs = "create_fail"
    THEN [result |-> GenerationFailed(<<Exc("OSError", "tempfile")>>), created |-> 0]
    ELSE IF "images" \notin DOMAIN future.val
    THEN [result |-> GenerationFailed(<<Exc("KeyError", "images")>>), created |-> 1]
    ELSE IF Len(future.val["images"]) = 0
    THEN [result |-> GenerationFailed(<<Exc("IndexError", "list index out of range")>>),
          created |-> 1]
    ELSE IF future.val["images"][1] \notin DOMAIN B64Table
    THEN [result |-> GenerationFailed(<<Exc("binascii.Error", "Incorrect padding")>>),
          created |-> 1]
    ELSE IF fs = "write_fail"
    THEN [result |-> GenerationFailed(<<Exc("OSError", "write")>>), created |-> 1]
    ELSE [result |-> Ok(name), created |-> 1]

\* the Generate button is pressed: on_generate_clicked up to future.result()
OnGenerateClicked ==
    /\ DialogIdle
    /\ gen[GtkThread].calls < MaxGenerate
    /\ \E user_input \in Prompts : Submit(GtkThread, BuildConfig(user_input))
    /\ UNCHANGED <<pc, run_mode, ret, fast_sd_requests, info, settings, models, file_path,
                   model_id, inference_steps, img_height, img_width, model_combo,
                   inference_scale, width_combo, height_combo, model_changed, http_log, served,
                   open_conns, nfiles, nreturned, layers, dialog_shown>>

\* os.path.exists and Gimp.file_load_layer: the file is gone, the layer is
\* loaded, no layer comes back, or the load raises
LoadOutcomes == {"missing", "layer", "none", "raise"}

\* on_generate_clicked, lines 311-339, from the return of future.result(): the
\* rest of generate_image, then the layer.  An exception of generate_image
\* leaves the callback at line 311, before the assignment.
OnGenerateFinish ==
    /\ pc = "dialog"
    /\ FutureDone(gen[GtkThread])
    /\ \E fs \in FsOutcomes, load \in LoadOutcomes :
          LET r == generate_image(gen[GtkThread].future, fs, nfiles + 1) IN
          /\ nfiles' = nfiles + r.created
          /\ nreturned' = nreturned + (IF r.result.ok THEN 1 ELSE 0)
          /\ gen' = [gen EXCEPT ![GtkThread] =
                         [Idle EXCEPT !.result = r.result, !.calls = gen[GtkThread].calls]]
          /\ file_path' = IF r.result.ok THEN r.result.val ELSE file_path
          /\ layers' = IF r.result.ok /\ load = "layer"
                       THEN <<r.result.val>> \o layers
                       ELSE layers
    /\ UNCHANGED <<pc, run_mode, ret, fast_sd_requests, info, settings, models, model_id,
                   inference_steps, img_height, img_width, model_combo, inference_scale,
                   width_combo, height_combo, model_changed, http_log, served, open_conns,
                   dialog_shown>>

\* a connection object that nothing refers to any more is finalized, which
\* closes its socket
Finalize ==
    /\ open_conns > 0
    /\ open_conns' = open_conns - 1
    /\ UNCHANGED <<pc, run_mode, ret, fast_sd_requests, info, settings, models, file_path,
                   model_id, inference_steps, img_height, img_width, model_combo,
                   inference_scale, width_combo, height_combo, model_changed, gen,
                   http_log, served, nfiles, nreturned, layers, dialog_shown>>

(***************************************************************************)
(* generate_image called by several threads of one plug-in object.         *)
(***************************************************************************)
ThreadConfigs ==
    {[prompt |-> p, inference_steps |-> 1, use_openvino |-> TRUE,
      use_tiny_auto_encoder |-> FALSE, openvino_lcm_model_id |-> "m1",
      image_width |-> 512, image_height |-> 512] : p \in Prompts}

ThreadCall ==
    /\ pc = "harness"
    /\ \E t \in DOMAIN gen, config \in ThreadConfigs :
          /\ gen[t].pc = "idle"
          /\ gen[t].calls < MaxThreadCalls
          /\ Submit(t, config)
    /\ UNCHANGED <<pc, run_mode, ret, fast_sd_requests, info, settings, models, file_path,
                   model_id, inference_steps, img_height, img_width, model_combo,
                   inference_scale, width_combo, height_combo, model_changed, http_log, served,
                   open_conns, nfiles, nreturned, layers, dialog_shown>>

ThreadReturn ==
    /\ pc = "harness"
    /\ \E t \in DOMAIN gen, fs \in FsOutcomes :
          /\ FutureDone(gen[t])
          /\ LET r == generate_image(gen[t].future, fs, nfiles + 1) IN
             /\ nfiles' = nfiles + r.created
             /\ nreturned' = nreturned + (IF r.result.ok THEN 1 ELSE 0)
             /\ gen' = [gen EXCEPT ![t] =
                            [Idle EXCEPT !.result = r.result, !.calls = gen[t].calls]]
    /\ UNCHANGED <<pc, run_mode, ret, fast_sd_requests, info, settings, models, file_path,
                   model_id, inference_steps, img_height, img_width, model_combo,
                   inference_scale, width_combo, height_combo, model_changed, http_log, served,
                   open_conns, layers, dialog_shown>>

(***************************************************************************)
(* Specifications.                                                         *)
(***************************************************************************)
InitCommon ==
    /\ ret = NoReturn
    /\ info = EmptyDict
    /\ settings = EmptyDict
    /\ models = <<>>
    /\ file_path = NoPath
    /\ model_id = ""
    /\ inference_steps = 1
    /\ img_height = 512
    /\ img_width = 512
    /\ model_combo = NewCombo(<<>>)
    /\ inference_scale = ScaleMin
    /\ width_combo = NewCombo(SizeOptions)
    /\ height_combo = NewCombo(SizeOptions)
    /\ model_changed = FALSE
    /\ http_log = <<>>
    /\ served = [info |-> NoAnswer, config |-> NoAnswer, models |-> NoAnswer]
    /\ open_conns = 0
    /\ nfiles = 0
    /\ nreturned = 0
    /\ layers = <<>>
    /\ dialog_shown = FALSE

\* GIMP invokes run() on the plug-in's main thread
Init ==
    /\ InitCommon
    /\ pc = "start"
    /\ run_mode \in {"INTERACTIVE", "NONINTERACTIVE"}
    /\ fast_sd_requests = [server_url |-> ""]
    /\ gen = [t \in {GtkThread} |-> Idle]

Next ==
    \/ RunProbe
    \/ RunInit
    \/ RunDialog
    \/ RunNonInteractive
    \/ SelectModel
    \/ SelectWidth
    \/ SelectHeight
    \/ CloseDialog
    \/ OnGenerateClicked
    \/ WorkerStart
    \/ WorkerFinish
    \/ OnGenerateFinish
    \/ Finalize

Spec == Init /\ [][Next]_vars

\* a plug-in object whose client exists, and threads that call generate_image
InitThreads ==
    /\ InitCommon
    /\ pc = "harness"
    /\ run_mode = "NONINTERACTIVE"
    /\ fast_sd_requests = [server_url |-> FASTSD_SERVER_URL]
    /\ gen = [t \in Callers |-> Idle]

NextThreads ==
    \/ ThreadCall
    \/ WorkerStart
    \/ WorkerFinish
    \/ ThreadReturn
    \/ Finalize

SpecThreads == InitThreads /\ [][NextThreads]_vars

(***************************************************************************)
(* The claims.                                                             *)
(***************************************************************************)
GenerateEntries == {i \in 1..Len(http_log) : http_log[i].path = "/api/generate"}

\* the numbers the size selectors offer
SizeValues == {ParseInt(SizeOptions[i]) : i \in 1..Len(SizeOptions)}

\* what the server reported, read from its answers
ReportedConfig == IF served.config.kind = "json" THEN served.config.body ELSE EmptyDict
ReportedDiffusion == Get(ReportedConfig, "lcm_diffusion_setting", EmptyDict)
ReportedCatalog ==
    IF served.models.kind = "json" /\ "openvino_models" \in DOMAIN served.models.body
    THEN served.models.body["openvino_models"]
    ELSE <<>>

\* C1: a generate_image call that returns a path creates exactly one
\* temporary file, and a call that fails on a transport error, an empty
\* images sequence or a base64 decode error creates none, so that the files
\* created are as many as the calls that returned a path.
C1_FileOnlyOnSuccess ==
    [][(gen[GtkThread].pc # "idle" /\ gen'[GtkThread].pc = "idle") =>
          LET r == gen'[GtkThread].result IN
          /\ r.ok => nfiles' = nfiles + 1 /\ nreturned' = nreturned + 1
          /\ (~r.ok /\ r.exc[2].type \in {"ConnectionRefusedError", "JSONDecodeError",
                                          "IndexError", "binascii.Error"})
                => nfiles' = nfiles /\ nreturned' = nreturned]_vars

\* C2: whatever threads call generate_image, no two submissions to
\* POST /api/generate are in progress at the same time.
C2_SubmissionsNeverOverlap ==
    Cardinality({t \in DOMAIN gen : gen[t].pc = "posting"}) <= 1

\* C3: image_width and image_height of every generation request are members
\* of {256, 512, 768, 1024}, whatever /api/config reported.
C3_RequestSizeInOptions ==
    \A t \in DOMAIN gen :
        gen[t].pc # "idle" =>
            /\ gen[t].config["image_width"] \in SizeValues
            /\ gen[t].config["image_height"] \in SizeValues

\* C4: image_width and image_height of a generation request are the values
\* selected in the width and height selectors when Generate is pressed; the
\* server's default (or 512) is used only when nothing is selected.
C4_RequestSizeIsUserSelection ==
    gen[GtkThread].pc # "idle" =>
        /\ gen[GtkThread].config["image_width"] =
              IF width_combo.active # -1
              THEN ParseInt(get_active_text(width_combo))
              ELSE Get(ReportedDiffusion, "image_width", 512)
        /\ gen[GtkThread].config["image_height"] =
              IF height_combo.active # -1
              THEN ParseInt(get_active_text(height_combo))
              ELSE Get(ReportedDiffusion, "image_height", 512)

\* C5: when the GET /api/info probe fails (no connection, or a body that is
\* not JSON), run() has returned an execution error that names the client's
\* base URL, /api/info is the only exchange made, and no dialog was shown.
C5_ProbeFailureEndsRun ==
    served.info.kind \in {"conn_fail", "bad_json"} =>
        /\ pc = "returned"
        /\ ret.status = "EXECUTION_ERROR"
        /\ ret.url = fast_sd_requests.server_url
        /\ Len(http_log) = 1
        /\ http_log[1].path = "/api/info"
        /\ ~dialog_shown

C5_Witness ==
    /\ served.info.kind = "bad_json"
    /\ ret.status = "EXECUTION_ERROR"

\* C6: init_ui_settings never raises; settings is the fetched config exactly
\* when the config fetch succeeded and {} otherwise; models is the fetched
\* list exactly when the models fetch succeeded and [] otherwise; and
\* /api/models is fetched whether or not the config fetch failed.
C6_FetchesDegradeIndependently ==
    served.config.kind # "none" =>
        /\ pc # "crashed"
        /\ settings = ReportedConfig
        /\ models = ReportedCatalog
        /\ served.models.kind # "none"
        /\ Len(http_log) >= 3
        /\ http_log[2].path = "/api/config"
        /\ http_log[3].path = "/api/models"

C6_Witness ==
    /\ served.config.kind = "bad_json"
    /\ served.models.kind = "json"
    /\ settings = EmptyDict
    /\ Len(models) = 2

\* C7: while the user has not operated the model selector, the request's
\* openvino_lcm_model_id is the server's default model when the catalog holds
\* it, else the first catalog entry, else None (empty catalog); the request
\* is built and submitted in that last case too.
C7_DefaultModelSelection ==
    (gen[GtkThread].pc # "idle" /\ ~model_changed) =>
        gen[GtkThread].config["openvino_lcm_model_id"] =
            LET default == Get(ReportedDiffusion, "openvino_lcm_model_id", "") IN
            IF InList(default, ReportedCatalog) THEN default
            ELSE IF Len(ReportedCatalog) > 0 THEN ReportedCatalog[1]
            ELSE None

C7_Witness ==
    /\ ReportedCatalog = <<>>
    /\ gen[GtkThread].pc = "done"
    /\ gen[GtkThread].config["openvino_lcm_model_id"] = None
    /\ GenerateEntries # {}

\* the answer of the worker is one generate_image cannot turn into a file
BadFuture(f) ==
    \/ ~f.ok
    \/ "images" \notin DOMAIN f.val
    \/ Len(f.val["images"]) = 0
    \/ f.val["images"][1] \notin DOMAIN B64Table

\* C8: a failure inside generate_image reaches the caller as one
\* RuntimeError("Failed to generate image ") that carries the original cause,
\* never as a path; that step leaves the client, info, settings, models and
\* file_path as they were and inserts no layer.
C8_FailureIsWrappedAndConfined ==
    [][(gen[GtkThread].pc # "idle" /\ gen'[GtkThread].pc = "idle") =>
          LET f == gen[GtkThread].future
              r == gen'[GtkThread].result
          IN  /\ BadFuture(f) => ~r.ok
              /\ ~r.ok =>
                    /\ r.exc[1] = Exc("RuntimeError", "Failed to generate image ")
                    /\ Len(r.exc) >= 2
                    /\ ~f.ok => Tail(r.exc) = f.exc
                    /\ UNCHANGED <<fast_sd_requests, info, settings, models,
                                   file_path, layers, pc>>
              /\ r.ok => file_path' = r.val]_vars

\* a failed call, then a call that succeeded
C8_Witness ==
    /\ gen[GtkThread].calls = 2
    /\ gen[GtkThread].pc = "idle"
    /\ gen[GtkThread].result.ok
    /\ nreturned = 1
    /\ file_path = gen[GtkThread].result.val

\* C9: every server operation sends at most one request over the one
\* connection it opens and has closed that connection when it returns or
\* fails: no connection of a finished operation is open.
C9_ConnectionsClosed ==
    /\ \A i \in 1..Len(http_log) : http_log[i].sent <= 1
    /\ open_conns = 0

\* C10: the POST /api/generate exchange is made by the executor's worker and
\* never by the calling thread; config, info and models are fetched by the
\* calling thread; and the calling thread creates the temporary file or
\* leaves generate_image only after the worker's exchange has completed.
C10_OnlySubmissionIsOffloaded ==
    /\ [](\A i \in 1..Len(http_log) :
            IF http_log[i].path = "/api/generate"
            THEN http_log[i].thread = WorkerThread(GtkThread)
            ELSE http_log[i].thread = CallerThread(GtkThread))
    /\ [][(nfiles' # nfiles \/ (gen[GtkThread].pc # "idle" /\ gen'[GtkThread].pc = "idle"))
            => /\ gen[GtkThread].pc = "done"
               /\ Cardinality(GenerateEntries) = gen[GtkThread].calls]_vars

C10_Witness ==
    /\ gen[GtkThread].pc = "idle"
    /\ gen[GtkThread].result.ok
    /\ nfiles = 1
    /\ GenerateEntries # {}

====
